---- MODULE Spec2Model ----
(***************************************************************************)
(* A model of two parts of darktable:                                      *)
(*   - src/libs/tools/lighttable.c, the lighttable layout tool (toggle     *)
(*     buttons, zoom spin button, shortcuts) together with the view        *)
(*     manager state it mirrors;                                           *)
(*   - src/imageio/imageio_im.c, the ImageMagick loader                    *)
(*     dt_imageio_open_im with its extension whitelist.                    *)
(* Spec is the lighttable tool, SpecIM the loader.                         *)
(*                                                                         *)
(* Of dt_lib_tool_lighttable_t the fields fullpreview_focus and            *)
(* culling_init_restriction are left out: the handlers store the control   *)
(* modifier and the shortcut element in them for the view manager, and     *)
(* nothing in lighttable.c decides anything on their value.                *)
(***************************************************************************)
EXTENDS Integers, Sequences, FiniteSets, TLC

VARIABLES
  d,      \* dt_lib_tool_lighttable_t: layout, base_layout, current_zoom
  gtk,    \* state of the widgets the tool owns (toggle states, tooltips, spin)
  conf,   \* the configuration keys plugins/lighttable/...
  vm,     \* darktable.view_manager: full preview state, culling restriction
  last,   \* the handler that ran last, with what it was called on
  im      \* dt_imageio_open_im: program counter, arguments, library, img

vars == <<d, gtk, conf, vm, last, im>>

(***************************************************************************)
(* Bounds of the model.                                                    *)
(***************************************************************************)
\* DT_LIGHTTABLE_MAX_ZOOM, the upper end of the zoom spin button's range,
\* scaled down (the constant is defined outside the two source files).
DT_LIGHTTABLE_MAX_ZOOM == 2
\* largest number of selected images dt_collection_get_selected_count returns
MaxSelected == 3

(***************************************************************************)
(* dt_lighttable_layout_t, in the order the Lua binding registers it.      *)
(***************************************************************************)
DT_LIGHTTABLE_LAYOUT_FIRST == -1
DT_LIGHTTABLE_LAYOUT_ZOOMABLE == 0
DT_LIGHTTABLE_LAYOUT_FILEMANAGER == 1
DT_LIGHTTABLE_LAYOUT_CULLING == 2
DT_LIGHTTABLE_LAYOUT_CULLING_DYNAMIC == 3
DT_LIGHTTABLE_LAYOUT_PREVIEW == 4
DT_LIGHTTABLE_LAYOUT_LAST == 5

Layouts == DT_LIGHTTABLE_LAYOUT_FIRST .. DT_LIGHTTABLE_LAYOUT_LAST

\* dt_lighttable_culling_restriction_t
DT_LIGHTTABLE_CULLING_RESTRICTION_AUTO == "AUTO"
DT_LIGHTTABLE_CULLING_RESTRICTION_COLLECTION == "COLLECTION"
DT_LIGHTTABLE_CULLING_RESTRICTION_SELECTION == "SELECTION"

\* the restrictions the view manager can be in
VmRestrictions ==
  {DT_LIGHTTABLE_CULLING_RESTRICTION_COLLECTION, DT_LIGHTTABLE_CULLING_RESTRICTION_SELECTION}

\* the five toggle buttons packed into d->layout_box
LayoutButtons ==
  {"layout_filemanager", "layout_zoomable", "layout_culling_fix",
   "layout_culling_dynamic", "layout_preview"}

\* configuration keys
K_LAYOUT == "plugins/lighttable/layout"
K_BASE_LAYOUT == "plugins/lighttable/base_layout"
K_IMAGES_IN_ROW == "plugins/lighttable/images_in_row"
K_CULLING_NUM_IMAGES == "plugins/lighttable/culling_num_images"

ConfKeys == {K_LAYOUT, K_BASE_LAYOUT, K_IMAGES_IN_ROW, K_CULLING_NUM_IMAGES}

\* tooltip texts
TIP_PREVIEW_EXIT == "click to exit from full preview layout."
TIP_PREVIEW_ENTER == "click to enter full preview layout."
TIP_CULLING_FIX_ENTER == "click to enter culling layout in fixed mode."
TIP_CULLING_DYNAMIC_ENTER == "click to enter culling layout in dynamic mode."
TIP_CULLING_EXIT == "click to exit culling layout."
TIP_RESTRICTED_ALLOW == "click to allow browsing all images from the collection."
TIP_RESTRICTED_LIMIT == "click to limit browsing to the selection."
TIP_NONE == ""

\* effects and elements of the shortcut actions
DT_ACTION_EFFECT_HOLD == "HOLD"
DT_ACTION_EFFECT_ON == "ON"
DT_ACTION_EFFECT_OFF == "OFF"
DT_ACTION_EFFECT_HOLD_TOGGLE == "HOLD_TOGGLE"
Effects ==
  {DT_ACTION_EFFECT_HOLD, DT_ACTION_EFFECT_ON, DT_ACTION_EFFECT_OFF,
   DT_ACTION_EFFECT_HOLD_TOGGLE}
DT_ACTION_ELEMENT_DEFAULT == 0
DT_ACTION_ELEMENT_PREVIEW_FOCUS_DETECT == 1
DT_ACTION_ELEMENT_PREVIEW_NO_RESTRICTION == 2
DT_ACTION_ELEMENT_CULLING_NO_RESTRICTION == 1

MIN(a, b) == IF a < b THEN a ELSE b
MAX(a, b) == IF a > b THEN a ELSE b

NULL == <<>>

\* the whole state the handlers of lighttable.c work on; d is *self->data,
\* NULL once gui_cleanup has freed it
State == [d |-> d, gtk |-> gtk, conf |-> conf, vm |-> vm]

\* a handler reads or writes a field of *d while self->data is NULL: the
\* access is at a small offset from address 0, the process receives SIGSEGV
\* in state s and is gone, its data with it
SIGSEGV == [signal |-> "SIGSEGV"]
Segfault(s) == [s EXCEPT !.d = SIGSEGV]

(***************************************************************************)
(* Configuration and view manager (outside the two source files).          *)
(***************************************************************************)
dt_conf_get_int(s, key) == s.conf[key]

dt_conf_set_int(s, key, value) == [s EXCEPT !.conf[key] = value]

dt_view_lighttable_preview_state(s) == s.vm.preview

dt_view_lighttable_culling_restricted_state(s) == s.vm.restricted

\* the states the view manager can be left in: asked for AUTO, it settles
\* on a restriction of its own
dt_view_lighttable_set_preview_state(s, state, sticky, restriction) ==
  { [s EXCEPT !.vm.preview = state, !.vm.restricted = r] :
      r \in IF restriction = DT_LIGHTTABLE_CULLING_RESTRICTION_AUTO
            THEN VmRestrictions ELSE {restriction} }

\* the numbers of selected images dt_collection_get_selected_count can return
dt_collection_get_selected_count == 0 .. MaxSelected

dt_view_lighttable_set_culling_restricted_state(s, restriction) ==
  [s EXCEPT !.vm.restricted = restriction]

(***************************************************************************)
(* Zoom spin button.                                                       *)
(***************************************************************************)
\* _set_zoom with the two configuration keys written the same way in
\* every layout
Mutant_set_zoom(s, zoom) ==
  IF s.d.layout = DT_LIGHTTABLE_LAYOUT_CULLING
     \/ s.d.layout = DT_LIGHTTABLE_LAYOUT_FILEMANAGER
     \/ s.d.layout = DT_LIGHTTABLE_LAYOUT_ZOOMABLE
  THEN dt_conf_set_int(s, K_IMAGES_IN_ROW, zoom)
  ELSE s

_set_zoom(s, zoom) ==
  IF s.d.layout = DT_LIGHTTABLE_LAYOUT_CULLING
  THEN dt_conf_set_int(s, K_CULLING_NUM_IMAGES, zoom)
  ELSE IF s.d.layout = DT_LIGHTTABLE_LAYOUT_FILEMANAGER
          \/ s.d.layout = DT_LIGHTTABLE_LAYOUT_ZOOMABLE
       THEN dt_conf_set_int(s, K_IMAGES_IN_ROW, zoom)
       ELSE s

\* the "value-changed" handler of d->zoom
\* (with self->data NULL, _set_zoom reads d->layout)
_lib_lighttable_zoom_slider_changed(s) ==
  IF s.d = NULL
  THEN Segfault(s)
  ELSE LET i == s.gtk.zoom_value
           s1 == _set_zoom(s, i)
       IN [s1 EXCEPT !.d.current_zoom = i]

\* gtk_spin_button_set_value on d->zoom: the value is clamped to the range
\* 1 .. DT_LIGHTTABLE_MAX_ZOOM, and "value-changed" is emitted when the
\* value changes and the handler is connected
gtk_spin_button_set_value(s, value, connected) ==
  LET v == MAX(1, MIN(DT_LIGHTTABLE_MAX_ZOOM, value))
      s1 == [s EXCEPT !.gtk.zoom_value = v]
  IN IF v # s.gtk.zoom_value /\ connected
     THEN _lib_lighttable_zoom_slider_changed(s1)
     ELSE s1

(***************************************************************************)
(* _lib_lighttable_update_btn                                              *)
(***************************************************************************)
\* the choice of the active button with full preview tested last
MutantActiveButton(s, fullpreview) ==
  IF s.d.layout = DT_LIGHTTABLE_LAYOUT_CULLING_DYNAMIC THEN "layout_culling_dynamic"
  ELSE IF s.d.layout = DT_LIGHTTABLE_LAYOUT_CULLING THEN "layout_culling_fix"
  ELSE IF s.d.layout = DT_LIGHTTABLE_LAYOUT_ZOOMABLE THEN "layout_zoomable"
  ELSE IF fullpreview THEN "layout_preview"
  ELSE "layout_filemanager"

ActiveButton(s, fullpreview) ==
  IF fullpreview THEN "layout_preview"
  ELSE IF s.d.layout = DT_LIGHTTABLE_LAYOUT_CULLING_DYNAMIC THEN "layout_culling_dynamic"
  ELSE IF s.d.layout = DT_LIGHTTABLE_LAYOUT_CULLING THEN "layout_culling_fix"
  ELSE IF s.d.layout = DT_LIGHTTABLE_LAYOUT_ZOOMABLE THEN "layout_zoomable"
  ELSE "layout_filemanager"

LayoutTooltips(s, fullpreview) ==
  [s EXCEPT
     !.gtk.tip_preview =
        IF fullpreview THEN TIP_PREVIEW_EXIT ELSE TIP_PREVIEW_ENTER,
     !.gtk.tip_culling_fix =
        IF s.d.layout # DT_LIGHTTABLE_LAYOUT_CULLING \/ fullpreview
        THEN TIP_CULLING_FIX_ENTER ELSE TIP_CULLING_EXIT,
     !.gtk.tip_culling_dynamic =
        IF s.d.layout # DT_LIGHTTABLE_LAYOUT_CULLING_DYNAMIC \/ fullpreview
        THEN TIP_CULLING_DYNAMIC_ENTER ELSE TIP_CULLING_EXIT]

RestrictedButton(s, fullpreview) ==
  IF s.d.layout = DT_LIGHTTABLE_LAYOUT_CULLING \/ fullpreview
  THEN IF dt_view_lighttable_culling_restricted_state(s)
            = DT_LIGHTTABLE_CULLING_RESTRICTION_SELECTION
       THEN [s EXCEPT !.gtk.tip_restricted = TIP_RESTRICTED_ALLOW,
                      !.gtk.restricted_active = TRUE,
                      !.gtk.restricted_visible = TRUE]
       ELSE [s EXCEPT !.gtk.tip_restricted = TIP_RESTRICTED_LIMIT,
                      !.gtk.restricted_active = FALSE,
                      !.gtk.restricted_visible = TRUE]
  ELSE [s EXCEPT !.gtk.restricted_visible = FALSE,
                 !.gtk.restricted_active = FALSE]

UpdateBtn(s, connected) ==
  LET fullpreview == dt_view_lighttable_preview_state(s)
      active == ActiveButton(s, fullpreview)
      s1 == [s EXCEPT !.gtk.active = [w \in LayoutButtons |-> w = active]]
      s2 == LayoutTooltips(s1, fullpreview)
      s3 == [s2 EXCEPT !.gtk.zoom_sensitive =
                (s.d.layout # DT_LIGHTTABLE_LAYOUT_CULLING_DYNAMIC /\ ~fullpreview)]
      s4 == gtk_spin_button_set_value(s3, s3.d.current_zoom, connected)
  IN RestrictedButton(s4, fullpreview)

\* (with self->data NULL, the first access is d->layout_filemanager)
_lib_lighttable_update_btn(s) ==
  IF s.d = NULL THEN Segfault(s) ELSE UpdateBtn(s, TRUE)

(***************************************************************************)
(* _lib_lighttable_set_layout.  The handlers below are given as the set of *)
(* states they can end in: what the view manager and the collection answer *)
(* is not decided by the tool.                                             *)
(***************************************************************************)
\* MAX(1, MIN(limit, dt_collection_get_selected_count())) with the glib
\* macros MAX(a, b) (((a) > (b)) ? (a) : (b)) and MIN(a, b)
\* (((a) < (b)) ? (a) : (b)): MIN(...) is evaluated for the comparison with
\* 1 and again for the value, and each evaluation calls the function for
\* its own comparison (n1, n3) and again for its value (n2, n4).  The
\* answers need not agree, and the value stored can be an answer that no
\* comparison has seen.
MaxMinSelectedCount(limit) ==
  { IF 1 > (IF limit < n1 THEN limit ELSE n2)
    THEN 1
    ELSE (IF limit < n3 THEN limit ELSE n4) :
      n1 \in dt_collection_get_selected_count,
      n2 \in dt_collection_get_selected_count,
      n3 \in dt_collection_get_selected_count,
      n4 \in dt_collection_get_selected_count }

SetLayoutZoom(s) ==
  IF s.d.layout = DT_LIGHTTABLE_LAYOUT_CULLING_DYNAMIC
  THEN { [s EXCEPT !.d.current_zoom =
            IF z = 1 THEN dt_conf_get_int(s, K_CULLING_NUM_IMAGES) ELSE z] :
           z \in MaxMinSelectedCount(30) }
  ELSE IF s.d.layout = DT_LIGHTTABLE_LAYOUT_CULLING
       THEN {[s EXCEPT !.d.current_zoom = dt_conf_get_int(s, K_CULLING_NUM_IMAGES)]}
       ELSE {[s EXCEPT !.d.current_zoom = dt_conf_get_int(s, K_IMAGES_IN_ROW)]}

SetLayoutBase(s, layout) ==
  IF layout = DT_LIGHTTABLE_LAYOUT_FILEMANAGER \/ layout = DT_LIGHTTABLE_LAYOUT_ZOOMABLE
  THEN dt_conf_set_int([s EXCEPT !.d.base_layout = layout], K_BASE_LAYOUT, layout)
  ELSE s

SetLayoutPreview(s, layout) ==
  IF (layout = DT_LIGHTTABLE_LAYOUT_PREVIEW) # dt_view_lighttable_preview_state(s)
  THEN dt_view_lighttable_set_preview_state(
         s, layout = DT_LIGHTTABLE_LAYOUT_PREVIEW, TRUE,
         DT_LIGHTTABLE_CULLING_RESTRICTION_AUTO)
  ELSE {s}

\* the part of _lib_lighttable_set_layout after the preview state is dealt with
SetLayoutStored(s1, layout) ==
  IF layout = DT_LIGHTTABLE_LAYOUT_PREVIEW
  THEN {_lib_lighttable_update_btn(s1)}
  ELSE LET current_layout == dt_conf_get_int(s1, K_LAYOUT)
           s2 == [s1 EXCEPT !.d.layout = layout]
       IN IF current_layout # layout
          THEN { _lib_lighttable_update_btn(
                   SetLayoutBase(dt_conf_set_int(s3, K_LAYOUT, layout), layout)) :
                 s3 \in SetLayoutZoom(s2) }
          ELSE {_lib_lighttable_update_btn(s2)}

\* (with self->data NULL, the first access is d->fullpreview_focus, the one
\* of _lib_lighttable_update_btn or the store to d->layout; the view manager
\* and the configuration are not written before it)
_lib_lighttable_set_layout(s, layout) ==
  IF s.d = NULL
  THEN {Segfault(s)}
  ELSE UNION { SetLayoutStored(s1, layout) : s1 \in SetLayoutPreview(s, layout) }

(***************************************************************************)
(* Button handlers.                                                        *)
(***************************************************************************)
\* new_layout with the culling buttons falling back to the filemanager
\* layout instead of d->base_layout
MutantLayoutBtnNewLayout(s, w) ==
  IF ~s.gtk.active[w]
  THEN IF w = "layout_preview" THEN DT_LIGHTTABLE_LAYOUT_PREVIEW
       ELSE IF w = "layout_culling_fix" THEN DT_LIGHTTABLE_LAYOUT_CULLING
       ELSE IF w = "layout_culling_dynamic" THEN DT_LIGHTTABLE_LAYOUT_CULLING_DYNAMIC
       ELSE IF w = "layout_zoomable" THEN DT_LIGHTTABLE_LAYOUT_ZOOMABLE
       ELSE DT_LIGHTTABLE_LAYOUT_FILEMANAGER
  ELSE IF w = "layout_preview" THEN s.d.layout
       ELSE DT_LIGHTTABLE_LAYOUT_FILEMANAGER

\* new_layout of the release handler of a layout button
LayoutBtnNewLayout(s, w) ==
  IF ~s.gtk.active[w]
  THEN IF w = "layout_preview" THEN DT_LIGHTTABLE_LAYOUT_PREVIEW
       ELSE IF w = "layout_culling_fix" THEN DT_LIGHTTABLE_LAYOUT_CULLING
       ELSE IF w = "layout_culling_dynamic" THEN DT_LIGHTTABLE_LAYOUT_CULLING_DYNAMIC
       ELSE IF w = "layout_zoomable" THEN DT_LIGHTTABLE_LAYOUT_ZOOMABLE
       ELSE DT_LIGHTTABLE_LAYOUT_FILEMANAGER
  ELSE IF w = "layout_preview" THEN s.d.layout
       ELSE s.d.base_layout

\* the handler returns at once on an active filemanager or zoomable button
LayoutBtnReturnsEarly(s, w) ==
  s.gtk.active[w] /\ w \in {"layout_filemanager", "layout_zoomable"}

\* (with self->data NULL, w is compared with d->layout_preview first)
_lib_lighttable_layout_btn_release(s, w) ==
  IF s.d = NULL
  THEN {Segfault(s)}
  ELSE IF LayoutBtnReturnsEarly(s, w)
       THEN {s}
       ELSE _lib_lighttable_set_layout(s, LayoutBtnNewLayout(s, w))

\* the release handler with the two restrictions swapped
Mutant_restricted_btn_release(s) ==
  LET restriction ==
        IF s.gtk.restricted_active
        THEN DT_LIGHTTABLE_CULLING_RESTRICTION_SELECTION
        ELSE DT_LIGHTTABLE_CULLING_RESTRICTION_COLLECTION
  IN _lib_lighttable_update_btn(
       dt_view_lighttable_set_culling_restricted_state(s, restriction))

_lib_lighttable_restricted_btn_release(s) ==
  LET restriction ==
        IF s.gtk.restricted_active
        THEN DT_LIGHTTABLE_CULLING_RESTRICTION_COLLECTION
        ELSE DT_LIGHTTABLE_CULLING_RESTRICTION_SELECTION
  IN _lib_lighttable_update_btn(
       dt_view_lighttable_set_culling_restricted_state(s, restriction))

(***************************************************************************)
(* Shortcuts.                                                              *)
(***************************************************************************)
_lib_lighttable_key_accel_toggle_filemanager(s) ==
  _lib_lighttable_set_layout(s, DT_LIGHTTABLE_LAYOUT_FILEMANAGER)

_lib_lighttable_key_accel_toggle_zoomable(s) ==
  _lib_lighttable_set_layout(s, DT_LIGHTTABLE_LAYOUT_ZOOMABLE)

\* (each of the four handlers below reads d->layout before anything else)
_lib_lighttable_key_accel_toggle_culling_dynamic_mode(s) ==
  IF s.d = NULL
  THEN {Segfault(s)}
  ELSE IF s.d.layout # DT_LIGHTTABLE_LAYOUT_CULLING
          /\ s.d.layout # DT_LIGHTTABLE_LAYOUT_CULLING_DYNAMIC
       THEN _lib_lighttable_set_layout(s, DT_LIGHTTABLE_LAYOUT_CULLING_DYNAMIC)
       ELSE _lib_lighttable_set_layout(s, s.d.base_layout)

_lib_lighttable_key_accel_toggle_culling_zoom_mode(s) ==
  IF s.d = NULL
  THEN {Segfault(s)}
  ELSE IF s.d.layout = DT_LIGHTTABLE_LAYOUT_CULLING
       THEN _lib_lighttable_set_layout(s, DT_LIGHTTABLE_LAYOUT_CULLING_DYNAMIC)
       ELSE IF s.d.layout = DT_LIGHTTABLE_LAYOUT_CULLING_DYNAMIC
            THEN _lib_lighttable_set_layout(s, DT_LIGHTTABLE_LAYOUT_CULLING)
            ELSE {s}

_lib_lighttable_key_accel_toggle_restricted_mode(s) ==
  IF s.d = NULL
  THEN Segfault(s)
  ELSE IF s.d.layout = DT_LIGHTTABLE_LAYOUT_CULLING \/ dt_view_lighttable_preview_state(s)
       THEN _lib_lighttable_restricted_btn_release(s)
       ELSE s

_lib_lighttable_key_accel_exit_layout(s) ==
  IF s.d = NULL
  THEN {Segfault(s)}
  ELSE IF dt_view_lighttable_preview_state(s)
       THEN _lib_lighttable_set_layout(s, s.d.layout)
       ELSE IF s.d.layout # s.d.base_layout
            THEN _lib_lighttable_set_layout(s, s.d.base_layout)
            ELSE {s}

\* the body under DT_PERFORM_ACTION(move_size) (with self->data NULL,
\* d->layout is read first)
_action_process_culling(s, element, effect) ==
  LET after ==
        IF s.d.layout # DT_LIGHTTABLE_LAYOUT_CULLING
           /\ s.d.layout # DT_LIGHTTABLE_LAYOUT_CULLING_DYNAMIC
           /\ effect # DT_ACTION_EFFECT_ON
        THEN _lib_lighttable_set_layout(s, DT_LIGHTTABLE_LAYOUT_CULLING)
        ELSE IF effect # DT_ACTION_EFFECT_ON
             THEN _lib_lighttable_set_layout(s, s.d.base_layout)
             ELSE {s}
  IN IF s.d = NULL
     THEN {Segfault(s)}
     ELSE { _lib_lighttable_update_btn(s1) : s1 \in after }

\* the body under DT_PERFORM_ACTION(move_size) (with self->data NULL, the
\* first access is d->layout where full preview is left, and the one of
\* _lib_lighttable_update_btn elsewhere, after the view manager was told to
\* enter full preview)
_action_process_preview(s, element, effect) ==
  LET after ==
        IF dt_view_lighttable_preview_state(s)
        THEN IF effect # DT_ACTION_EFFECT_ON
             THEN _lib_lighttable_set_layout(s, s.d.layout)
             ELSE {s}
        ELSE IF effect # DT_ACTION_EFFECT_OFF
             THEN LET sticky == effect = DT_ACTION_EFFECT_HOLD_TOGGLE
                      restriction ==
                        IF sticky /\ element = DT_ACTION_ELEMENT_PREVIEW_NO_RESTRICTION
                        THEN DT_LIGHTTABLE_CULLING_RESTRICTION_COLLECTION
                        ELSE DT_LIGHTTABLE_CULLING_RESTRICTION_AUTO
                  IN dt_view_lighttable_set_preview_state(s, TRUE, sticky, restriction)
             ELSE {s}
  IN IF s.d = NULL /\ dt_view_lighttable_preview_state(s) /\ effect # DT_ACTION_EFFECT_ON
     THEN {Segfault(s)}
     ELSE { _lib_lighttable_update_btn(s1) : s1 \in after }

(***************************************************************************)
(* Proxy functions handed to the view manager.                             *)
(***************************************************************************)
\* (with self->data NULL, d->zoom is read for the call of
\* gtk_spin_button_set_value)
_lib_lighttable_set_zoom(s, zoom) ==
  IF s.d = NULL
  THEN Segfault(s)
  ELSE LET s1 == gtk_spin_button_set_value(s, zoom, TRUE)
       IN [s1 EXCEPT !.d.current_zoom = zoom]

\* reads d->current_zoom whatever self->data is
_lib_lighttable_get_zoom(s) == s.d.current_zoom

_lib_lighttable_get_layout(s) ==
  IF s.d # NULL THEN s.d.layout ELSE DT_LIGHTTABLE_LAYOUT_FILEMANAGER

(***************************************************************************)
(* gui_cleanup: the data is freed and self->data set to NULL; the proxies  *)
(* stay registered with the view manager.                                  *)
(***************************************************************************)
gui_cleanup(s) == [s EXCEPT !.d = NULL]

(***************************************************************************)
(* gui_init, called once on the loaded module: self->data is NULL, the     *)
(* widgets are as their constructors make them, s.conf and s.vm are what   *)
(* the configuration and the view manager hold.  The value-changed handler *)
(* of the spin button is connected at line 526, after the value is set at  *)
(* line 507 and after _lib_lighttable_update_btn at line 524.              *)
(***************************************************************************)
\* the values lines 444-455 can give d->current_zoom
InitZoom(s, layout) ==
  IF layout = DT_LIGHTTABLE_LAYOUT_CULLING
  THEN {dt_conf_get_int(s, K_CULLING_NUM_IMAGES)}
  ELSE IF layout = DT_LIGHTTABLE_LAYOUT_CULLING_DYNAMIC
       THEN { IF z = 1 THEN dt_conf_get_int(s, K_CULLING_NUM_IMAGES) ELSE z :
                z \in MaxMinSelectedCount(DT_LIGHTTABLE_MAX_ZOOM) }
       ELSE {dt_conf_get_int(s, K_IMAGES_IN_ROW)}

gui_init(s) ==
  LET layout == MIN(DT_LIGHTTABLE_LAYOUT_LAST - 1, dt_conf_get_int(s, K_LAYOUT))
      base_layout ==
        MIN(DT_LIGHTTABLE_LAYOUT_LAST - 1, dt_conf_get_int(s, K_BASE_LAYOUT))
  IN { LET s0 == [s EXCEPT !.d = [layout |-> layout,
                                  base_layout |-> base_layout,
                                  current_zoom |-> zoom]]
           s1 == gtk_spin_button_set_value(s0, s0.d.current_zoom, FALSE)
       IN UpdateBtn(s1, FALSE) :
         zoom \in InitZoom(s, layout) }

\* the module as gui_init finds it, the four configuration keys holding
\* cl, cb, cr and cc
Loaded(cl, cb, cr, cc, preview, restricted) ==
  [d |-> NULL,
   gtk |-> [active |-> [w \in LayoutButtons |-> FALSE],
            tip_preview |-> TIP_NONE,
            tip_culling_fix |-> TIP_NONE,
            tip_culling_dynamic |-> TIP_NONE,
            tip_restricted |-> TIP_NONE,
            zoom_sensitive |-> TRUE,
            zoom_value |-> 1,
            restricted_active |-> FALSE,
            restricted_visible |-> FALSE],
   conf |-> [k \in ConfKeys |->
               IF k = K_LAYOUT THEN cl
               ELSE IF k = K_BASE_LAYOUT THEN cb
               ELSE IF k = K_IMAGES_IN_ROW THEN cr ELSE cc],
   vm |-> [preview |-> preview, restricted |-> restricted]]

(***************************************************************************)
(* imageio_im.c.  A C string is the sequence of its characters, a pointer  *)
(* into it an index, the terminating NUL the code 0 read past the end.     *)
(***************************************************************************)
LowerCase ==
  <<"a", "b", "c", "d", "e", "f", "g", "h", "i", "j", "k", "l", "m", "n", "o", "p", "q", "r", "s", "t", "u", "v", "w", "x", "y", "z">>
UpperCase ==
  <<"A", "B", "C", "D", "E", "F", "G", "H", "I", "J", "K", "L", "M", "N", "O", "P", "Q", "R", "S", "T", "U", "V", "W", "X", "Y", "Z">>
Digits == <<"0", "1", "2", "3", "4", "5", "6", "7", "8", "9">>

Range(f) == {f[i] : i \in DOMAIN f}
IndexOf(f, c) == CHOOSE i \in DOMAIN f : f[i] = c

\* the ASCII codes of the characters of filenames
AsciiTable ==
  [c \in Range(LowerCase) \cup Range(UpperCase) \cup Range(Digits) \cup {".", "/"} |->
     IF c \in Range(LowerCase) THEN 96 + IndexOf(LowerCase, c)
     ELSE IF c \in Range(UpperCase) THEN 64 + IndexOf(UpperCase, c)
     ELSE IF c \in Range(Digits) THEN 47 + IndexOf(Digits, c)
     ELSE IF c = "." THEN 46
     ELSE 47]
Ascii(c) == AsciiTable[c]

\* the byte at 1-based position i of the C string s
CharAt(s, i) == IF i <= Len(s) THEN Ascii(s[i]) ELSE 0

g_ascii_tolower(c) == IF 65 <= c /\ c <= 90 THEN c + 32 ELSE c

strlen(s) == Len(s)

\* g_ascii_strncasecmp continued at position i with n characters left
RECURSIVE StrNCaseCmpFrom(_, _, _, _)
StrNCaseCmpFrom(s1, s2, n, i) ==
  LET c1 == g_ascii_tolower(CharAt(s1, i))
      c2 == g_ascii_tolower(CharAt(s2, i))
  IN IF n = 0 THEN 0
     ELSE IF CharAt(s1, i) = 0 \/ CharAt(s2, i) = 0
          THEN CharAt(s1, i) - CharAt(s2, i)
          ELSE IF c1 # c2 THEN c1 - c2
               ELSE StrNCaseCmpFrom(s1, s2, n - 1, i + 1)

g_ascii_strncasecmp(s1, s2, n) == StrNCaseCmpFrom(s1, s2, n, 1)

\* g_strrstr with a needle of one character: the position of its last
\* occurrence in haystack, 0 for NULL
g_strrstr(haystack, needle) ==
  LET at == {i \in DOMAIN haystack : haystack[i] = needle}
  IN IF at = {} THEN 0 ELSE CHOOSE i \in at : \A j \in at : j <= i

extensions_whitelist ==
  <<
     <<"t", "i", "f", "f">>, <<"t", "i", "f">>, <<"p", "a", "m">>,
     <<"p", "b", "m">>, <<"p", "g", "m">>, <<"p", "p", "m">>,
     <<"p", "n", "m">>, <<"j", "p", "c">>, <<"j", "p", "2">>,
     <<"j", "p", "f">>, <<"j", "p", "x">>, <<"b", "m", "p">>,
     <<"m", "i", "f", "f">>, <<"d", "c", "m">>, <<"j", "n", "g">>,
     <<"m", "n", "g">>, <<"g", "i", "f">>, <<"f", "i", "t", "s">>,
     <<"f", "i", "t">>, <<"f", "t", "s">>, <<"c", "i", "n">>,
     <<"d", "p", "x">>, <<"j", "x", "l">>, <<"w", "e", "b", "p">>
  >>

EXT_QOI == <<"q", "o", "i">>

\* im7 says whether the build defines HAVE_IMAGEMAGICK7
_supported_image(filename, im7) ==
  LET dot == g_strrstr(filename, ".")
      ext == SubSeq(filename, dot + 1, Len(filename))
  IN IF dot = 0 THEN FALSE
     ELSE \/ \E i \in DOMAIN extensions_whitelist :
               g_ascii_strncasecmp(ext, extensions_whitelist[i],
                                   strlen(extensions_whitelist[i])) = 0
          \/ im7 /\ g_ascii_strncasecmp(ext, EXT_QOI, 3) = 0

(***************************************************************************)
(* dt_imageio_open_im.  im holds the arguments, the locals and the program *)
(* counter of one call; calls is the list of the calls it has made into    *)
(* the libraries (with the CMYK loop as an entry of its own), ok the calls *)
(* that succeeded, lib what the library reported about the image.  A       *)
(* float is modelled bit for bit, each operation rounded as the hardware   *)
(* rounds it; a profile is the sequence of its bytes and NULL the empty    *)
(* one.                                                                    *)
(***************************************************************************)
DT_IMAGEIO_OK == "DT_IMAGEIO_OK"
DT_IMAGEIO_FILE_NOT_FOUND == "DT_IMAGEIO_FILE_NOT_FOUND"
DT_IMAGEIO_LOAD_FAILED == "DT_IMAGEIO_LOAD_FAILED"
DT_IMAGEIO_CACHE_FULL == "DT_IMAGEIO_CACHE_FULL"

CMYColorspace == "CMYColorspace"
CMYKColorspace == "CMYKColorspace"
sRGBColorspace == "sRGBColorspace"
Colorspaces == {sRGBColorspace, CMYColorspace, CMYKColorspace}

DT_IMAGE_RAW == "DT_IMAGE_RAW"
DT_IMAGE_S_RAW == "DT_IMAGE_S_RAW"
DT_IMAGE_HDR == "DT_IMAGE_HDR"
DT_IMAGE_LDR == "DT_IMAGE_LDR"
DT_IMAGE_REJECTED == "DT_IMAGE_REJECTED"

\* float is IEEE 754 binary32 with round to nearest, ties to even.  A finite
\* value is (-1)^s * m * 2^e with m < 2^FLT_MANT_DIG: normal where
\* m >= 2^(FLT_MANT_DIG - 1), subnormal or zero where e = FLT_MIN_E.  The
\* arithmetic is done on integers below 2^31.
FLT_MANT_DIG == 24
\* exponent of the least significant bit of the subnormal numbers
FLT_MIN_E == -149
\* exponent of the least significant bit of FLT_MAX
FLT_MAX_E == 104

RECURSIVE BitLen(_)
BitLen(n) == IF n = 0 THEN 0 ELSE 1 + BitLen(n \div 2)

Finite(s, m, e) == [class |-> "finite", s |-> s, m |-> m, e |-> e]
Infinity(s) == [class |-> "inf", s |-> s, m |-> 0, e |-> 0]
NaN == [class |-> "nan", s |-> 0, m |-> 0, e |-> 0]
IsZero(a) == a.class = "finite" /\ a.m = 0

\* the float nearest to (-1)^s * (H * 2^24 + L) * 2^E, where L < 2^24
FRound(s, H, L, E) ==
  LET n == IF H > 0 THEN FLT_MANT_DIG + BitLen(H) ELSE BitLen(L)
      sh == MAX(n - FLT_MANT_DIG, FLT_MIN_E - E)
      \* bits dropped: sh of them, at most 24
      qLow == H * 2^(24 - sh) + (L \div 2^sh)
      upLow == (L % 2^sh) > 2^(sh - 1)
      tieLow == (L % 2^sh) = 2^(sh - 1)
      \* bits dropped: 24 and t more
      t == sh - 24
      qHigh == H \div 2^t
      upHigh == (H % 2^t) > 2^(t - 1) \/ ((H % 2^t) = 2^(t - 1) /\ L > 0)
      tieHigh == (H % 2^t) = 2^(t - 1) /\ L = 0
      q == IF sh <= 24 THEN qLow ELSE qHigh
      up == IF sh <= 24 THEN upLow ELSE upHigh
      tie == IF sh <= 24 THEN tieLow ELSE tieHigh
      m == IF up \/ (tie /\ q % 2 = 1) THEN q + 1 ELSE q
      carry == m = 2^FLT_MANT_DIG
      e == IF carry THEN E + sh + 1 ELSE E + sh
      left == MIN(FLT_MANT_DIG - n, E - FLT_MIN_E)
  IN IF n = 0 THEN Finite(s, 0, FLT_MIN_E)
     ELSE IF sh <= 0
          THEN IF E - left > FLT_MAX_E
               THEN Infinity(s)
               ELSE Finite(s, L * 2^left, E - left)
          ELSE IF sh > 48 THEN Finite(s, 0, FLT_MIN_E)
          ELSE IF e > FLT_MAX_E THEN Infinity(s)
          ELSE IF m = 0 THEN Finite(s, 0, FLT_MIN_E)
          ELSE Finite(s, IF carry THEN 2^(FLT_MANT_DIG - 1) ELSE m, e)

\* the float m * 2^e, for 0 <= m < 2^24
Float(m, e) == FRound(0, 0, m, e)
\* 1.f
ONE_F == Float(1, 0)

FNeg(a) == IF a.class = "nan" THEN a ELSE [a EXCEPT !.s = 1 - a.s]

\* a + b on finite, non-zero floats: the operand of larger magnitude is
\* given three more bits (guard, round, sticky), the other is aligned with
\* it, the bits it loses kept as the sticky bit
FAddFinite(a, b) ==
  LET aIsHi == a.e > b.e \/ (a.e = b.e /\ a.m >= b.m)
      hi == IF aIsHi THEN a ELSE b
      lo == IF aIsHi THEN b ELSE a
      diff == hi.e - lo.e
      k == diff - 3
      q == lo.m \div 2^k
      lo8 == IF diff <= 3 THEN lo.m * 2^(3 - diff)
             ELSE IF k >= 25 THEN 1
             ELSE IF (lo.m % 2^k) # 0 /\ q % 2 = 0 THEN q + 1 ELSE q
      S == IF hi.s = lo.s THEN hi.m * 8 + lo8 ELSE hi.m * 8 - lo8
  IN IF S = 0 THEN Finite(0, 0, FLT_MIN_E)
     ELSE FRound(hi.s, S \div 2^24, S % 2^24, hi.e - 3)

FAdd(a, b) ==
  IF a.class = "nan" \/ b.class = "nan" THEN NaN
  ELSE IF a.class = "inf"
       THEN IF b.class = "inf" /\ b.s # a.s THEN NaN ELSE a
  ELSE IF b.class = "inf" THEN b
  ELSE IF a.m = 0 /\ b.m = 0
       THEN Finite(IF a.s = b.s THEN a.s ELSE 0, 0, FLT_MIN_E)
  ELSE IF a.m = 0 THEN b
  ELSE IF b.m = 0 THEN a
  ELSE FAddFinite(a, b)

\* a - b and a * b on floats
FSub(a, b) == FAdd(a, FNeg(b))
FMul(a, b) ==
  LET s == (a.s + b.s) % 2
      a1 == a.m \div 4096
      a0 == a.m % 4096
      b1 == b.m \div 4096
      b0 == b.m % 4096
      mid == a1 * b0 + a0 * b1
      lo24 == a0 * b0 + (mid % 4096) * 4096
      H == a1 * b1 + (mid \div 4096) + (lo24 \div 2^24)
  IN IF a.class = "nan" \/ b.class = "nan" THEN NaN
     ELSE IF a.class = "inf" \/ b.class = "inf"
          THEN IF IsZero(a) \/ IsZero(b) THEN NaN ELSE Infinity(s)
     ELSE FRound(s, H, lo24 % 2^24, a.e + b.e)

Called(m, name) == [m EXCEPT !.calls = Append(@, name)]
Succeeded(m, name) == [m EXCEPT !.ok = @ \cup {name}]

\* lines 78-81: the whitelist decides whether anything is done at all
SupportedStep(m) ==
  IF ~_supported_image(m.filename, m.im7)
  THEN [m EXCEPT !.pc = "done", !.ret = DT_IMAGEIO_LOAD_FAILED]
  ELSE [m EXCEPT !.pc = "exif"]

\* dt_exif_read(img, filename) is not part of these sources.  It is handed
\* the record to fill in from the metadata of the file; the records it can
\* leave behind: the file could not be read and nothing was written, the
\* metadata was read, the metadata was read and flags were set from it
dt_exif_read(img) ==
  { img,
    [img EXCEPT !.exif_inited = TRUE],
    [img EXCEPT !.exif_inited = TRUE,
                !.flags = @ \cup {DT_IMAGE_HDR, DT_IMAGE_REJECTED}] }

\* lines 83-84; read is the record as dt_exif_read leaves it, after_exif
\* the record at line 85
ExifStep(m, read) ==
  LET m1 == IF ~m.img.exif_inited
            THEN [Called(m, "dt_exif_read") EXCEPT !.img = read]
            ELSE m
  IN [m1 EXCEPT !.after_exif = m1.img, !.pc = "new"]

\* lines 86-88; created says whether NewMagickWand returned a wand
NewMagickWandStep(m, created) ==
  LET m1 == Called(m, "NewMagickWand")
  IN IF created
     THEN [Succeeded(m1, "NewMagickWand") EXCEPT !.wand = "live", !.pc = "read"]
     ELSE [m1 EXCEPT !.wand = "NULL", !.pc = "error"]

\* a reading step that goes on to the next step whatever MagickReadImage
\* returned
MutantMagickReadImageStep(m, read) ==
  LET m1 == Called(m, "MagickReadImage")
  IN IF read
     THEN [Succeeded(m1, "MagickReadImage") EXCEPT !.pc = "dims"]
     ELSE [m1 EXCEPT !.err = DT_IMAGEIO_FILE_NOT_FOUND, !.pc = "dims"]

\* lines 90-97
MagickReadImageStep(m, read) ==
  LET m1 == Called(m, "MagickReadImage")
  IN IF read
     THEN [Succeeded(m1, "MagickReadImage") EXCEPT !.pc = "dims"]
     ELSE [m1 EXCEPT !.err = DT_IMAGEIO_FILE_NOT_FOUND, !.pc = "error"]

\* lines 103-107
DimsStep(m, width, height) ==
  [Called(Called(m, "MagickGetImageWidth"), "MagickGetImageHeight")
     EXCEPT !.img.width = width, !.img.height = height,
            !.img.buf_dsc.channels = 4, !.img.buf_dsc.datatype = "TYPE_FLOAT",
            !.pc = "alloc"]

\* the buffer dt_mipmap_cache_alloc hands out for img: room for
\* width * height pixels of 4 floats, followed here by one more pixel that
\* stands for the memory behind the image
MipmapBuffer(img) == [i \in 1 .. (img.width * img.height + 1) * 4 |-> Float(0, 0)]

\* lines 109-116
AllocStep(m, allocated) ==
  LET m1 == Called(m, "dt_mipmap_cache_alloc")
  IN IF allocated
     THEN [Succeeded(m1, "dt_mipmap_cache_alloc")
             EXCEPT !.mipbuf = MipmapBuffer(m.img), !.pc = "export"]
     ELSE [m1 EXCEPT !.err = DT_IMAGEIO_CACHE_FULL, !.pc = "error"]

\* MagickExportImagePixels(image, 0, 0, columns, rows, map, FloatPixel, buf):
\* the library writes columns * rows pixels of 4 floats, pixels[p] being
\* pixel p - 1
ExportedInto(buf, columns, rows, pixels) ==
  [i \in DOMAIN buf |->
     IF i <= columns * rows * 4
     THEN pixels[((i - 1) \div 4) + 1][((i - 1) % 4) + 1]
     ELSE buf[i]]

\* lines 118-139
ExportStep(m, colorspace, exported, pixels) ==
  LET m1 == [Called(Called(m, "MagickGetImageColorspace"), "MagickExportImagePixels")
               EXCEPT !.lib.colorspace = colorspace,
                      !.colormap =
                        IF colorspace = CMYColorspace \/ colorspace = CMYKColorspace
                        THEN "CMYK" ELSE "RGBP"]
  IN IF exported
     THEN LET buf == ExportedInto(m.mipbuf, m.img.width, m.img.height, pixels)
          IN [Succeeded(m1, "MagickExportImagePixels")
                EXCEPT !.mipbuf = buf, !.exported = buf, !.pc = "cmyk"]
     ELSE [m1 EXCEPT !.pc = "error"]

\* the loop with the bound of its index missing the factor 4
RECURSIVE MutantCmykLoop(_, _, _, _)
MutantCmykLoop(mipbuf, index, width, height) ==
  IF index < width * height
  THEN LET black == mipbuf[index + 3 + 1]
           fixed == [mipbuf EXCEPT
                       ![index + 1] = FMul(FSub(ONE_F, black), FSub(ONE_F, mipbuf[index + 1])),
                       ![index + 2] = FMul(FSub(ONE_F, black), FSub(ONE_F, mipbuf[index + 2])),
                       ![index + 3] = FMul(FSub(ONE_F, black), FSub(ONE_F, mipbuf[index + 3]))]
       IN MutantCmykLoop(fixed, index + 4, width, height)
  ELSE mipbuf

\* lines 144-150; mipbuf[index] of the code is mipbuf[index + 1] here
RECURSIVE CmykLoop(_, _, _, _)
CmykLoop(mipbuf, index, width, height) ==
  IF index < width * height * 4
  THEN LET black == mipbuf[index + 3 + 1]
           fixed == [mipbuf EXCEPT
                       ![index + 1] = FMul(FSub(ONE_F, black), FSub(ONE_F, mipbuf[index + 1])),
                       ![index + 2] = FMul(FSub(ONE_F, black), FSub(ONE_F, mipbuf[index + 2])),
                       ![index + 3] = FMul(FSub(ONE_F, black), FSub(ONE_F, mipbuf[index + 3]))]
       IN CmykLoop(fixed, index + 4, width, height)
  ELSE mipbuf

\* lines 141-151
CmykStep(m) ==
  IF m.lib.colorspace = CMYColorspace \/ m.lib.colorspace = CMYKColorspace
  THEN [Called(m, "cmyk_fixup")
          EXCEPT !.mipbuf = CmykLoop(m.mipbuf, 0, m.img.width, m.img.height),
                 !.pc = "profile"]
  ELSE [m EXCEPT !.pc = "profile"]

\* the profile queries with "icm" asked for first
MutantProfileData(m, icc, icm) ==
  LET m1 == [Called(m, "MagickGetImageProfile icm") EXCEPT !.profile_data = icm]
  IN IF icm = NULL
     THEN [Called(m1, "MagickGetImageProfile icc") EXCEPT !.profile_data = icc]
     ELSE m1

\* lines 153-163
ProfileData(m, icc, icm) ==
  LET m1 == [Called(m, "MagickGetImageProfile icc") EXCEPT !.profile_data = icc]
  IN IF icc = NULL
     THEN [Called(m1, "MagickGetImageProfile icm") EXCEPT !.profile_data = icm]
     ELSE m1

\* lines 165-174; allocated says whether g_try_malloc0 returned memory
ProfileCopy(m, allocated) ==
  IF m.profile_data # NULL
  THEN LET m1 == Called(m, "g_try_malloc0")
           m2 == IF allocated
                 THEN [Called(Succeeded(m1, "g_try_malloc0"), "memcpy")
                         EXCEPT !.img.profile = m.profile_data,
                                !.img.profile_size = Len(m.profile_data)]
                 ELSE [m1 EXCEPT !.img.profile = NULL]
       IN Called(m2, "MagickRelinquishMemory")
  ELSE m

\* lines 153-174; icc and icm are the profiles the image holds under these
\* names, NULL for none
ProfileStep(m, icc, icm, allocated) ==
  [ProfileCopy(ProfileData([m EXCEPT !.lib.icc = icc, !.lib.icm = icm], icc, icm),
               allocated)
     EXCEPT !.pc = "destroy"]

\* line 180
DestroyStep(m) ==
  [Called(m, "DestroyMagickWand") EXCEPT !.wand = "destroyed", !.pc = "finish"]

\* the end of a successful call with img->flags assigned DT_IMAGE_LDR
\* instead of having the bit set in it
MutantFinishStep(m) ==
  [m EXCEPT !.img.buf_dsc.cst = "IOP_CS_RGB",
            !.img.buf_dsc.filters = 0,
            !.img.flags = {DT_IMAGE_LDR},
            !.img.loader = "LOADER_IM",
            !.ret = DT_IMAGEIO_OK,
            !.pc = "done"]

\* lines 182-190
FinishStep(m) ==
  [m EXCEPT !.img.buf_dsc.cst = "IOP_CS_RGB",
            !.img.buf_dsc.filters = 0,
            !.img.flags = (@ \ {DT_IMAGE_RAW, DT_IMAGE_S_RAW, DT_IMAGE_HDR})
                            \cup {DT_IMAGE_LDR},
            !.img.loader = "LOADER_IM",
            !.ret = DT_IMAGEIO_OK,
            !.pc = "done"]

\* lines 192-194.  With image == NULL the call hands the library a null
\* wand, which it is not made for: returns says whether the call comes back
ErrorStep(m, returns) ==
  LET m1 == Called(m, "DestroyMagickWand")
  IN IF m.wand = "NULL"
     THEN IF returns THEN [m1 EXCEPT !.ret = m.err, !.pc = "done"]
          ELSE [m1 EXCEPT !.pc = "crashed"]
     ELSE [m1 EXCEPT !.wand = "destroyed", !.ret = m.err, !.pc = "done"]

(***************************************************************************)
(* dt_imageio_open_im is not running while the lighttable tool is.         *)
(***************************************************************************)
ImIdle == [pc |-> "idle"]

(***************************************************************************)
(* The lighttable tool as a state machine.  A handler that returns without *)
(* doing anything leaves the state as it is; its action is enabled on the  *)
(* paths that do something.                                                *)
(***************************************************************************)
\* values the program itself writes to plugins/lighttable/layout: every
\* layout handed to _lib_lighttable_set_layout but PREVIEW
ConfLayoutValues == Layouts \ {DT_LIGHTTABLE_LAYOUT_PREVIEW}
\* values the program itself writes to plugins/lighttable/base_layout
ConfBaseLayoutValues == {DT_LIGHTTABLE_LAYOUT_ZOOMABLE, DT_LIGHTTABLE_LAYOUT_FILEMANAGER}
\* values of the zoom spin button, which are what _set_zoom writes
ZoomValues == 1 .. DT_LIGHTTABLE_MAX_ZOOM
\* arguments of the zoom proxy and of the Lua zoom_level member
ZoomArgs == 0 .. (DT_LIGHTTABLE_MAX_ZOOM + 1)

\* gui_init has returned and no signal has ended the process
Running == d # SIGSEGV /\ last.op # "load"

\* the next state is s, reached by handler op called on w; last names the
\* handler that returned last, or the signal that ended the process
Becomes(s, op, w) ==
  /\ d' = s.d
  /\ gtk' = s.gtk
  /\ conf' = s.conf
  /\ vm' = s.vm
  /\ last' = IF s.d = SIGSEGV
             THEN [op |-> "SIGSEGV", w |-> "none"]
             ELSE [op |-> op, w |-> w]
  /\ UNCHANGED im

\* a getter called through its proxy returns value and changes nothing
Returns(op, value) ==
  /\ last' = [op |-> op, w |-> "none", ret |-> value]
  /\ UNCHANGED <<d, gtk, conf, vm, im>>

\* the module is loaded and gui_init has not been called yet
Init ==
  /\ \E cl \in ConfLayoutValues, cb \in ConfBaseLayoutValues,
        cr \in ZoomValues, cc \in ZoomValues, restricted \in VmRestrictions :
       LET s == Loaded(cl, cb, cr, cc, FALSE, restricted)
       IN d = s.d /\ gtk = s.gtk /\ conf = s.conf /\ vm = s.vm
  /\ last = [op |-> "load", w |-> "none"]
  /\ im = ImIdle

GuiInit ==
  /\ last.op = "load"
  /\ \E s \in gui_init(State) : Becomes(s, "gui_init", "none")

LayoutBtnRelease ==
  \E w \in LayoutButtons :
    /\ Running
    /\ d # NULL => ~LayoutBtnReturnsEarly(State, w)
    /\ \E s \in _lib_lighttable_layout_btn_release(State, w) :
         Becomes(s, "layout_btn_release", w)

\* the button can be clicked only while it is shown
RestrictedBtnRelease ==
  /\ Running
  /\ gtk.restricted_visible
  /\ Becomes(_lib_lighttable_restricted_btn_release(State),
             "restricted_btn_release", "layout_culling_restricted")

KeyAccelToggleFilemanager ==
  /\ Running
  /\ \E s \in _lib_lighttable_key_accel_toggle_filemanager(State) :
       Becomes(s, "key_accel", "none")

KeyAccelToggleZoomable ==
  /\ Running
  /\ \E s \in _lib_lighttable_key_accel_toggle_zoomable(State) :
       Becomes(s, "key_accel", "none")

KeyAccelToggleCullingDynamicMode ==
  /\ Running
  /\ \E s \in _lib_lighttable_key_accel_toggle_culling_dynamic_mode(State) :
       Becomes(s, "key_accel", "none")

KeyAccelToggleCullingZoomMode ==
  /\ Running
  /\ d # NULL =>
       d.layout \in {DT_LIGHTTABLE_LAYOUT_CULLING, DT_LIGHTTABLE_LAYOUT_CULLING_DYNAMIC}
  /\ \E s \in _lib_lighttable_key_accel_toggle_culling_zoom_mode(State) :
       Becomes(s, "key_accel", "none")

KeyAccelToggleRestrictedMode ==
  /\ Running
  /\ d # NULL => (d.layout = DT_LIGHTTABLE_LAYOUT_CULLING \/ vm.preview)
  /\ Becomes(_lib_lighttable_key_accel_toggle_restricted_mode(State),
             "key_accel", "none")

KeyAccelExitLayout ==
  /\ Running
  /\ d # NULL => (vm.preview \/ d.layout # d.base_layout)
  /\ \E s \in _lib_lighttable_key_accel_exit_layout(State) :
       Becomes(s, "key_accel", "none")

ActionProcessCulling ==
  \E element \in {DT_ACTION_ELEMENT_DEFAULT, DT_ACTION_ELEMENT_CULLING_NO_RESTRICTION},
     effect \in Effects :
    /\ Running
    /\ \E s \in _action_process_culling(State, element, effect) :
         Becomes(s, "action_process", "none")

ActionProcessPreview ==
  \E element \in {DT_ACTION_ELEMENT_DEFAULT, DT_ACTION_ELEMENT_PREVIEW_FOCUS_DETECT,
                  DT_ACTION_ELEMENT_PREVIEW_NO_RESTRICTION},
     effect \in Effects :
    /\ Running
    /\ \E s \in _action_process_preview(State, element, effect) :
         Becomes(s, "action_process", "none")

\* the user changes the value of the spin button, which is possible while
\* the widget is sensitive
ZoomSliderChanged ==
  /\ Running
  /\ gtk.zoom_sensitive
  /\ \E z \in ZoomValues :
       /\ z # gtk.zoom_value
       /\ Becomes(_lib_lighttable_zoom_slider_changed(
                    [State EXCEPT !.gtk.zoom_value = z]),
                  "zoom_slider_changed", "zoom")

\* proxy.lighttable.set_zoom and the Lua member zoom_level
SetZoom ==
  \E zoom \in ZoomArgs :
    /\ Running
    /\ Becomes(_lib_lighttable_set_zoom(State, zoom), "set_zoom", "none")

\* proxy.lighttable.set_layout and the Lua member layout
SetLayout ==
  \E layout \in Layouts :
    /\ Running
    /\ \E s \in _lib_lighttable_set_layout(State, layout) :
         Becomes(s, "set_layout", "none")

\* proxy.lighttable.update_layout_btn
UpdateLayoutBtn ==
  /\ Running
  /\ Becomes(_lib_lighttable_update_btn(State), "update_btn", "none")

\* proxy.lighttable.get_layout and the Lua member layout read
GetLayout ==
  /\ Running
  /\ Returns("get_layout", _lib_lighttable_get_layout(State))

\* proxy.lighttable.get_zoom and the Lua member zoom_level read
GetZoom ==
  /\ Running
  /\ IF d = NULL
     THEN Becomes(Segfault(State), "get_zoom", "none")
     ELSE Returns("get_zoom", _lib_lighttable_get_zoom(State))

\* the module is unloaded; a second call finds self->data NULL already
GuiCleanup ==
  /\ Running
  /\ d # NULL
  /\ Becomes(gui_cleanup(State), "gui_cleanup", "none")

\* the view manager changes its full preview state by itself
ViewManagerPreview ==
  \E b \in BOOLEAN :
    /\ Running
    /\ b # vm.preview
    /\ Becomes([State EXCEPT !.vm.preview = b], "view_manager", "none")

\* the view manager changes its culling restriction by itself
ViewManagerRestriction ==
  \E r \in VmRestrictions :
    /\ Running
    /\ r # vm.restricted
    /\ Becomes([State EXCEPT !.vm.restricted = r], "view_manager", "none")

Next ==
  \/ GuiInit
  \/ LayoutBtnRelease
  \/ RestrictedBtnRelease
  \/ KeyAccelToggleFilemanager
  \/ KeyAccelToggleZoomable
  \/ KeyAccelToggleCullingDynamicMode
  \/ KeyAccelToggleCullingZoomMode
  \/ KeyAccelToggleRestrictedMode
  \/ KeyAccelExitLayout
  \/ ActionProcessCulling
  \/ ActionProcessPreview
  \/ ZoomSliderChanged
  \/ SetZoom
  \/ SetLayout
  \/ UpdateLayoutBtn
  \/ GetLayout
  \/ GetZoom
  \/ GuiCleanup
  \/ ViewManagerPreview
  \/ ViewManagerRestriction

Spec == Init /\ [][Next]_vars

(***************************************************************************)
(* The loader as a state machine: one call of dt_imageio_open_im, a step   *)
(* at a time, on a filename, a build and an image record drawn at the      *)
(* start; what the libraries answer is drawn where they are called.        *)
(***************************************************************************)
\* longest filename drawn from NameChars
MaxNameLen == 4
\* largest number of pixels (width * height) the library reports
MaxPixels == 3

NameChars == {".", "g", "i", "F"}
BoundedNames == UNION {[1 .. n -> NameChars] : n \in 0 .. MaxNameLen}
\* further filenames, with characters outside NameChars
ListedNames ==
  {<<"a", ".", "w", "e", "b", "p">>, <<"a", ".", "W", "e", "b", "P">>,
   <<"a", ".", "w", "e", "b">>, <<"a", ".", "j", "p", "2">>,
   <<"a", ".", "f", "i", "t", "s">>, <<"a", ".", "q", "o", "i">>,
   <<"a", ".", "Q", "O", "I">>, <<"a", ".", "q", "o", "i", "f">>, <<"q", "o", "i">>,
   <<".", "g", "i", "F", "F">>}
Filenames == BoundedNames \cup ListedNames

\* dt_image_t before the call: a record nothing was loaded into yet, or one
\* that describes a raw image loaded earlier, its EXIF data read
PriorImage(loaded) ==
  [exif_inited |-> loaded,
   width |-> 0,
   height |-> 0,
   buf_dsc |-> [channels |-> 0,
                datatype |-> "TYPE_UNKNOWN",
                cst |-> IF loaded THEN "IOP_CS_RAW" ELSE "IOP_CS_NONE",
                filters |-> IF loaded THEN 1 ELSE 0],
   flags |-> IF loaded
             THEN {DT_IMAGE_RAW, DT_IMAGE_S_RAW, DT_IMAGE_HDR, DT_IMAGE_REJECTED}
             ELSE {},
   loader |-> IF loaded THEN "LOADER_RAWSPEED" ELSE "LOADER_UNKNOWN",
   profile |-> IF loaded THEN <<5>> ELSE NULL,
   profile_size |-> IF loaded THEN 1 ELSE 0]

\* the state at the entry of dt_imageio_open_im(img, filename, mbuf)
ImStart(filename, im7, img) ==
  [pc |-> "check",
   filename |-> filename,
   im7 |-> im7,
   img |-> img,
   prior |-> img,
   after_exif |-> img,
   wand |-> "unset",
   err |-> DT_IMAGEIO_LOAD_FAILED,
   ret |-> "none",
   mipbuf |-> <<>>,
   exported |-> <<>>,
   colormap |-> "none",
   profile_data |-> NULL,
   lib |-> [colorspace |-> "none", icc |-> NULL, icm |-> NULL],
   calls |-> <<>>,
   ok |-> {}]

\* pixels the library exports, a channel value <<m, e>> being m * 2^e:
\* (2^-25, 1/2, 1, 0), (1, 1/4, 3/4, 1/2), (3/16, 5/16, 7/16, 1/8),
\* (1/16, 1/16, 1/16, 1) and (1/8192, 0.1f, (float)(26. / 255), 1/8192)
PixelSamples ==
  << << <<1, -25>>, <<1, -1>>, <<1, 0>>, <<0, 0>> >>,
     << <<1, 0>>, <<1, -2>>, <<3, -2>>, <<1, -1>> >>,
     << <<3, -4>>, <<5, -4>>, <<7, -4>>, <<1, -3>> >>,
     << <<1, -4>>, <<1, -4>>, <<1, -4>>, <<1, 0>> >>,
     << <<1, -13>>, <<13421773, -27>>, <<13684945, -27>>, <<1, -13>> >> >>
LibraryPixels(n, first) ==
  [p \in 1 .. n |->
     [c \in 1 .. 4 |->
        LET v == PixelSamples[((p - 1 + first) % Len(PixelSamples)) + 1][c]
        IN Float(v[1], v[2])]]
\* embedded profiles
IccProfiles == {NULL, <<1, 2>>}
IcmProfiles == {NULL, <<3>>}

\* the lighttable tool is left alone while the loader runs
InitIM ==
  /\ LET s == CHOOSE s \in gui_init(Loaded(DT_LIGHTTABLE_LAYOUT_FILEMANAGER,
                                             DT_LIGHTTABLE_LAYOUT_FILEMANAGER,
                                             1, 1, FALSE,
                                             DT_LIGHTTABLE_CULLING_RESTRICTION_COLLECTION)) :
                 TRUE
     IN d = s.d /\ gtk = s.gtk /\ conf = s.conf /\ vm = s.vm
  /\ last = [op |-> "gui_init", w |-> "none"]
  /\ \E filename \in Filenames, im7 \in BOOLEAN, loaded \in BOOLEAN :
       im = ImStart(filename, im7, PriorImage(loaded))

ImStep(pc, m) ==
  /\ im.pc = pc
  /\ im' = m
  /\ UNCHANGED <<d, gtk, conf, vm, last>>

IMSupported == ImStep("check", SupportedStep(im))

IMExif == \E read \in dt_exif_read(im.img) : ImStep("exif", ExifStep(im, read))

IMNewMagickWand ==
  \E created \in BOOLEAN : ImStep("new", NewMagickWandStep(im, created))

IMMagickReadImage ==
  \E read \in BOOLEAN : ImStep("read", MagickReadImageStep(im, read))

IMDims ==
  \E width \in 1 .. MaxPixels, height \in 1 .. MaxPixels :
    /\ width * height <= MaxPixels
    /\ ImStep("dims", DimsStep(im, width, height))

IMAlloc ==
  \E allocated \in BOOLEAN : ImStep("alloc", AllocStep(im, allocated))

IMExport ==
  /\ im.pc = "export"
  /\ \E colorspace \in Colorspaces, exported \in BOOLEAN,
        first \in 0 .. (Len(PixelSamples) - 1) :
       ImStep("export",
              ExportStep(im, colorspace, exported,
                         LibraryPixels(im.img.width * im.img.height, first)))

IMCmyk == ImStep("cmyk", CmykStep(im))

IMProfile ==
  \E icc \in IccProfiles, icm \in IcmProfiles, allocated \in BOOLEAN :
    ImStep("profile", ProfileStep(im, icc, icm, allocated))

IMDestroy == ImStep("destroy", DestroyStep(im))

IMFinish == ImStep("finish", FinishStep(im))

IMError ==
  \E returns \in BOOLEAN : ImStep("error", ErrorStep(im, returns))

NextIM ==
  \/ IMSupported
  \/ IMExif
  \/ IMNewMagickWand
  \/ IMMagickReadImage
  \/ IMDims
  \/ IMAlloc
  \/ IMExport
  \/ IMCmyk
  \/ IMProfile
  \/ IMDestroy
  \/ IMFinish
  \/ IMError

SpecIM == InitIM /\ [][NextIM]_vars

(***************************************************************************)
(* Properties of the lighttable tool.                                      *)
(***************************************************************************)
\* the handlers that end by calling _lib_lighttable_update_btn
UpdatingOps ==
  {"gui_init", "layout_btn_release", "restricted_btn_release", "key_accel",
   "action_process", "set_layout", "update_btn"}

ActiveButtons == {w \in LayoutButtons : gtk.active[w]}

\* C1: after gui_init and after every handler that ends by calling
\* _lib_lighttable_update_btn exactly one of the five layout buttons is
\* active: the preview button iff the view manager reports full preview,
\* otherwise the button of d->layout (dynamic culling, fixed culling,
\* zoomable), and the filemanager button for every other value of d->layout.
C1_ExactlyOneLayoutButtonActive ==
  (last.op \in UpdatingOps /\ Running) =>
    /\ Cardinality(ActiveButtons) = 1
    /\ gtk.active["layout_preview"] <=> vm.preview
    /\ ~vm.preview =>
         /\ d.layout = DT_LIGHTTABLE_LAYOUT_CULLING_DYNAMIC
              => gtk.active["layout_culling_dynamic"]
         /\ d.layout = DT_LIGHTTABLE_LAYOUT_CULLING => gtk.active["layout_culling_fix"]
         /\ d.layout = DT_LIGHTTABLE_LAYOUT_ZOOMABLE => gtk.active["layout_zoomable"]
         /\ d.layout \notin {DT_LIGHTTABLE_LAYOUT_CULLING_DYNAMIC,
                             DT_LIGHTTABLE_LAYOUT_CULLING,
                             DT_LIGHTTABLE_LAYOUT_ZOOMABLE}
              => gtk.active["layout_filemanager"]

\* a click on the preview button has entered full preview from the fixed
\* culling layout, and the preview button is the one active button
C1_Witness ==
  /\ last = [op |-> "layout_btn_release", w |-> "layout_preview"]
  /\ d.layout = DT_LIGHTTABLE_LAYOUT_CULLING
  /\ vm.preview
  /\ ActiveButtons = {"layout_preview"}

\* the states of S in which the handler has returned
Ended(S) == {t \in S : t.d # SIGSEGV}

\* what entering and leaving full preview is to keep
PreviewKeeps(t) ==
  /\ t.d.layout = d.layout
  /\ t.d.base_layout = d.base_layout
  /\ t.d.current_zoom = d.current_zoom
  /\ t.conf[K_LAYOUT] = conf[K_LAYOUT]
  /\ t.conf[K_BASE_LAYOUT] = conf[K_BASE_LAYOUT]

\* C6: entering full preview through the preview button or
\* _lib_lighttable_set_layout(PREVIEW) turns the view manager's preview state
\* on and keeps d->layout, d->base_layout, d->current_zoom and the
\* configuration keys layout and base_layout; a click on the preview button
\* while preview is on (and the button shows it) turns preview off and keeps
\* the same values.
C6_PreviewEnterExit ==
  [][ /\ \A t \in Ended(_lib_lighttable_set_layout(State, DT_LIGHTTABLE_LAYOUT_PREVIEW)) :
           t.vm.preview /\ PreviewKeeps(t)
      /\ (last' = [op |-> "layout_btn_release", w |-> "layout_preview"] /\ Running') =>
           /\ PreviewKeeps([d |-> d', gtk |-> gtk', conf |-> conf', vm |-> vm'])
           /\ ~gtk.active["layout_preview"] => vm'.preview
           /\ (gtk.active["layout_preview"] /\ vm.preview) => ~vm'.preview ]_vars

\* the states in which a click on a culling button can end
ClickCullingFix ==
  IF Running
  THEN Ended(_lib_lighttable_layout_btn_release(State, "layout_culling_fix"))
  ELSE {}
ClickCullingDynamic ==
  IF Running
  THEN Ended(_lib_lighttable_layout_btn_release(State, "layout_culling_dynamic"))
  ELSE {}

\* C7: the culling buttons do what their tooltip says: where the tooltip of
\* the fixed (dynamic) culling button reads "click to exit culling layout.",
\* a click on it ends with d->layout equal to d->base_layout, which the
\* click leaves as it was; where it reads
\* "click to enter culling layout in fixed (dynamic) mode.", a click ends
\* with d->layout equal to CULLING (CULLING_DYNAMIC) and full preview off.
C7_CullingButtonsFollowTooltip ==
  /\ \A t \in ClickCullingFix :
       /\ gtk.tip_culling_fix = TIP_CULLING_EXIT =>
            t.d.layout = t.d.base_layout /\ t.d.base_layout = d.base_layout
       /\ gtk.tip_culling_fix = TIP_CULLING_FIX_ENTER =>
            t.d.layout = DT_LIGHTTABLE_LAYOUT_CULLING /\ ~t.vm.preview
  /\ \A t \in ClickCullingDynamic :
       /\ gtk.tip_culling_dynamic = TIP_CULLING_EXIT =>
            t.d.layout = t.d.base_layout /\ t.d.base_layout = d.base_layout
       /\ gtk.tip_culling_dynamic = TIP_CULLING_DYNAMIC_ENTER =>
            t.d.layout = DT_LIGHTTABLE_LAYOUT_CULLING_DYNAMIC /\ ~t.vm.preview

\* a click on the fixed culling button has left the culling layout for the
\* zoomable base layout, and the tooltip offers to enter culling again
C7_Witness ==
  /\ last = [op |-> "layout_btn_release", w |-> "layout_culling_fix"]
  /\ d.layout = DT_LIGHTTABLE_LAYOUT_ZOOMABLE
  /\ d.base_layout = DT_LIGHTTABLE_LAYOUT_ZOOMABLE
  /\ gtk.tip_culling_fix = TIP_CULLING_FIX_ENTER
  /\ gtk.tip_culling_dynamic = TIP_CULLING_DYNAMIC_ENTER

\* C8 as stated: a click on the culling-restricted button flips the view
\* manager's restriction: SELECTION at the time of the click becomes
\* COLLECTION, anything else becomes SELECTION, in every state in which the
\* button is visible.
C8_ClickFlipsViewManagerRestriction ==
  [][ last'.op = "restricted_btn_release" =>
        vm'.restricted =
          IF vm.restricted = DT_LIGHTTABLE_CULLING_RESTRICTION_SELECTION
          THEN DT_LIGHTTABLE_CULLING_RESTRICTION_COLLECTION
          ELSE DT_LIGHTTABLE_CULLING_RESTRICTION_SELECTION ]_vars

\* the states in which a click on the culling-restricted button can end
ClickRestricted ==
  IF Running THEN Ended({_lib_lighttable_restricted_btn_release(State)}) ELSE {}

\* C8 amended: a click on the visible culling-restricted button sets the
\* restriction its tooltip names, which is decided by the toggle state the
\* last _lib_lighttable_update_btn gave the button: COLLECTION where it reads
\* "click to allow browsing all images from the collection.", SELECTION
\* where it reads "click to limit browsing to the selection."; this flips the
\* view manager's restriction where the button still mirrors it.
C8_ClickFollowsButtonState ==
  \A t \in ClickRestricted :
    gtk.restricted_visible =>
       /\ gtk.tip_restricted \in {TIP_RESTRICTED_ALLOW, TIP_RESTRICTED_LIMIT}
       /\ gtk.tip_restricted = TIP_RESTRICTED_ALLOW =>
            t.vm.restricted = DT_LIGHTTABLE_CULLING_RESTRICTION_COLLECTION
       /\ gtk.tip_restricted = TIP_RESTRICTED_LIMIT =>
            t.vm.restricted = DT_LIGHTTABLE_CULLING_RESTRICTION_SELECTION
       /\ (gtk.restricted_active
             <=> vm.restricted = DT_LIGHTTABLE_CULLING_RESTRICTION_SELECTION)
            => t.vm.restricted # vm.restricted

\* the button was clicked in the fixed culling layout and the restriction is
\* now COLLECTION, the tooltip offering to limit browsing again
C8_Witness ==
  /\ last.op = "restricted_btn_release"
  /\ d.layout = DT_LIGHTTABLE_LAYOUT_CULLING
  /\ vm.restricted = DT_LIGHTTABLE_CULLING_RESTRICTION_COLLECTION
  /\ gtk.restricted_visible
  /\ gtk.tip_restricted = TIP_RESTRICTED_LIMIT

FileLayouts == {DT_LIGHTTABLE_LAYOUT_FILEMANAGER, DT_LIGHTTABLE_LAYOUT_ZOOMABLE}

\* C9 as stated: when the zoom spin button changes to z, images_in_row
\* becomes z in the filemanager and zoomable layouts, culling_num_images
\* becomes z in the culling layouts, the other key is unchanged, and
\* d->current_zoom becomes z (read for the handler of the change: the proxy
\* _lib_lighttable_set_zoom stores its own argument afterwards).
C9_ZoomWritesKeyOfLayout ==
  [][ (gtk'.zoom_value # gtk.zoom_value /\ Running') =>
        LET z == gtk'.zoom_value
        IN /\ d'.layout \in FileLayouts =>
                /\ conf'[K_IMAGES_IN_ROW] = z
                /\ conf'[K_CULLING_NUM_IMAGES] = conf[K_CULLING_NUM_IMAGES]
           /\ d'.layout \in {DT_LIGHTTABLE_LAYOUT_CULLING,
                             DT_LIGHTTABLE_LAYOUT_CULLING_DYNAMIC} =>
                /\ conf'[K_CULLING_NUM_IMAGES] = z
                /\ conf'[K_IMAGES_IN_ROW] = conf[K_IMAGES_IN_ROW]
           /\ last'.op # "set_zoom" => d'.current_zoom = z ]_vars

\* C9 amended: when the zoom spin button changes to z after gui_init has
\* returned, images_in_row becomes z in the filemanager and zoomable
\* layouts, culling_num_images becomes z in the fixed culling layout, the
\* other key is unchanged; in the dynamic culling layout and for every other
\* value of d->layout neither key changes; d->current_zoom becomes z, except
\* that _lib_lighttable_set_zoom ends with d->current_zoom equal to its
\* argument.  When gui_init sets the spin button, its handler is not
\* connected yet: neither key is written and d->current_zoom keeps the value
\* gui_init gave it, which z is the clamp of to 1..DT_LIGHTTABLE_MAX_ZOOM.
C9_ZoomWritesKeyOfFixedLayout ==
  [][ (gtk'.zoom_value # gtk.zoom_value /\ Running') =>
        LET z == gtk'.zoom_value
        IN IF last'.op = "gui_init"
           THEN /\ conf' = conf
                /\ d'.current_zoom \in InitZoom(State, d'.layout)
                /\ z = MAX(1, MIN(DT_LIGHTTABLE_MAX_ZOOM, d'.current_zoom))
           ELSE /\ d'.layout \in FileLayouts =>
                     /\ conf'[K_IMAGES_IN_ROW] = z
                     /\ conf'[K_CULLING_NUM_IMAGES] = conf[K_CULLING_NUM_IMAGES]
                /\ d'.layout = DT_LIGHTTABLE_LAYOUT_CULLING =>
                     /\ conf'[K_CULLING_NUM_IMAGES] = z
                     /\ conf'[K_IMAGES_IN_ROW] = conf[K_IMAGES_IN_ROW]
                /\ d'.layout \notin FileLayouts \cup {DT_LIGHTTABLE_LAYOUT_CULLING} =>
                     /\ conf'[K_CULLING_NUM_IMAGES] = conf[K_CULLING_NUM_IMAGES]
                     /\ conf'[K_IMAGES_IN_ROW] = conf[K_IMAGES_IN_ROW]
                /\ last'.op # "set_zoom" => d'.current_zoom = z
                /\ last'.op = "set_zoom" =>
                     z = MAX(1, MIN(DT_LIGHTTABLE_MAX_ZOOM, d'.current_zoom)) ]_vars

\* the user has set the spin button in the fixed culling layout:
\* culling_num_images holds the new value and images_in_row another one
C9_Witness ==
  /\ last.op = "zoom_slider_changed"
  /\ d.layout = DT_LIGHTTABLE_LAYOUT_CULLING
  /\ d.current_zoom = gtk.zoom_value
  /\ conf[K_CULLING_NUM_IMAGES] = gtk.zoom_value
  /\ conf[K_IMAGES_IN_ROW] # gtk.zoom_value

(***************************************************************************)
(* Properties of dt_imageio_open_im.                                       *)
(***************************************************************************)
ImRunning == im.pc # "idle"
ImEnded == im.pc \in {"done", "crashed"}
ImReturnedOk == im.pc = "done" /\ im.ret = DT_IMAGEIO_OK
CallsMade == Range(im.calls)
CallCount(name) == Cardinality({i \in DOMAIN im.calls : im.calls[i] = name})

\* the text after the last '.' of filename, in lower case
ToLowerChar(c) ==
  IF c \in Range(UpperCase) THEN LowerCase[IndexOf(UpperCase, c)] ELSE c
HasDot(filename) == \E i \in DOMAIN filename : filename[i] = "."
ExtensionText(filename) ==
  LET dot == CHOOSE i \in DOMAIN filename :
               /\ filename[i] = "."
               /\ \A j \in DOMAIN filename : filename[j] = "." => j <= i
      n == Len(filename) - dot
  IN [k \in 1 .. n |-> ToLowerChar(filename[dot + k])]
WhitelistedExtension(filename, im7) ==
  /\ HasDot(filename)
  /\ \/ ExtensionText(filename) \in Range(extensions_whitelist)
     \/ im7 /\ ExtensionText(filename) = EXT_QOI

\* C2: dt_imageio_open_im supports only whitelisted extensions: when the
\* text after the last '.' of filename is not, compared case-insensitively,
\* one of the whitelisted extensions, or filename has no '.', the function
\* returns DT_IMAGEIO_LOAD_FAILED without reading EXIF, without calling the
\* image library and without modifying img.
C2_OnlyWhitelistedExtensions ==
  (ImRunning /\ im.pc # "check" /\ ~WhitelistedExtension(im.filename, im.im7)) =>
    /\ im.pc = "done"
    /\ im.ret = DT_IMAGEIO_LOAD_FAILED
    /\ im.calls = <<>>
    /\ im.img = im.prior

\* the steps of dt_imageio_open_im, each named by the call it starts with
StepOrder ==
  <<"NewMagickWand", "MagickReadImage", "MagickGetImageWidth",
    "dt_mipmap_cache_alloc", "MagickExportImagePixels", "cmyk_fixup",
    "MagickGetImageProfile icc", "DestroyMagickWand">>
FallibleSteps ==
  {"NewMagickWand", "MagickReadImage", "dt_mipmap_cache_alloc", "MagickExportImagePixels"}
StepRank == [step \in Range(StepOrder) |-> IndexOf(StepOrder, step)]
Rank(step) == StepRank[step]
IsStep(name) == name \in DOMAIN StepRank
\* the steps among the calls made, in the order they were made
StepsMade == SelectSeq(im.calls, IsStep)
StepsInOrder ==
  \A i \in 1 .. (Len(StepsMade) - 1) : Rank(StepsMade[i]) < Rank(StepsMade[i + 1])
OnlyAfterSuccess(step) ==
  step \in CallsMade =>
    \A f \in FallibleSteps : Rank(f) < Rank(step) => f \in im.ok
OkIffFallibleStepsSucceeded ==
  /\ im.pc = "done" => (im.ret = DT_IMAGEIO_OK <=> FallibleSteps \subseteq im.ok)
  /\ ImReturnedOk =>
       Range(StepOrder) \ {"cmyk_fixup"} \subseteq CallsMade

\* C3 as stated: for a supported filename the steps run in the order create
\* the wand, read the file, set img->width/height, allocate the buffer,
\* export the pixels, fix up CMYK, copy the profile, destroy the wand, each
\* one only if all earlier ones succeeded; DT_IMAGEIO_OK is returned iff
\* wand creation, file read, buffer allocation and pixel export succeeded.
C3_EachStepOnlyAfterSuccess ==
  ImRunning =>
    /\ StepsInOrder
    /\ \A step \in Range(StepOrder) : OnlyAfterSuccess(step)
    /\ OkIffFallibleStepsSucceeded

\* C3 amended: for a supported filename the steps create the wand, read the
\* file, set img->width/height, allocate the buffer, export the pixels, fix
\* up CMYK, copy the profile run in this order, each one only if all
\* earlier ones succeeded; DestroyMagickWand is called exactly once, as the
\* last call, on every path that got past the extension check, whether the
\* steps before it succeeded or not; DT_IMAGEIO_OK is returned iff wand
\* creation, file read, buffer allocation and pixel export succeeded.
C3_StepsInOrderWandDestroyedLast ==
  ImRunning =>
    /\ StepsInOrder
    /\ \A step \in Range(StepOrder) \ {"DestroyMagickWand"} : OnlyAfterSuccess(step)
    /\ (ImEnded /\ _supported_image(im.filename, im.im7)) =>
         /\ "NewMagickWand" \in CallsMade
         /\ CallCount("DestroyMagickWand") = 1
         /\ im.calls[Len(im.calls)] = "DestroyMagickWand"
    /\ OkIffFallibleStepsSucceeded

\* a call has gone through every step, the CMYK fix-up and the copy of the
\* profile included, and has returned DT_IMAGEIO_OK
C3_Witness ==
  /\ ImReturnedOk
  /\ "cmyk_fixup" \in CallsMade
  /\ "memcpy" \in CallsMade
  /\ im.calls[Len(im.calls)] = "DestroyMagickWand"

\* the profile the image embeds: the one named icc, else the one named icm
EmbeddedProfile == IF im.lib.icc # NULL THEN im.lib.icc ELSE im.lib.icm
IcmOnlyWithoutIcc ==
  "MagickGetImageProfile icm" \in CallsMade =>
    /\ im.lib.icc = NULL
    /\ \E i, j \in DOMAIN im.calls :
         /\ i < j
         /\ im.calls[i] = "MagickGetImageProfile icc"
         /\ im.calls[j] = "MagickGetImageProfile icm"

\* C4 as stated: whenever dt_imageio_open_im returns DT_IMAGEIO_OK for an
\* image with an embedded profile (named icc, or icm when there is no icc
\* one), img->profile holds a copy of that profile and img->profile_size is
\* its length; icm is queried only when the icc query returned nothing.
C4_ProfileCopiedOnOk ==
  ImRunning =>
    /\ IcmOnlyWithoutIcc
    /\ (ImReturnedOk /\ EmbeddedProfile # NULL) =>
         /\ im.img.profile = EmbeddedProfile
         /\ im.img.profile_size = Len(EmbeddedProfile)

\* C4 amended: whenever dt_imageio_open_im returns DT_IMAGEIO_OK for an
\* image with an embedded profile (named icc, or icm when there is no icc
\* one) and g_try_malloc0 gave memory for the copy, img->profile holds a
\* copy of that profile and img->profile_size is its length; when
\* g_try_malloc0 failed, DT_IMAGEIO_OK is returned all the same with
\* img->profile NULL and img->profile_size as it was; icm is queried only
\* when the icc query returned nothing.
C4_ProfileCopiedWhenAllocated ==
  ImRunning =>
    /\ IcmOnlyWithoutIcc
    /\ (ImReturnedOk /\ EmbeddedProfile # NULL) =>
         /\ "g_try_malloc0" \in CallsMade
         /\ IF "g_try_malloc0" \in im.ok
            THEN /\ im.img.profile = EmbeddedProfile
                 /\ im.img.profile_size = Len(EmbeddedProfile)
            ELSE /\ im.img.profile = NULL
                 /\ im.img.profile_size = im.prior.profile_size

\* an image with an icm profile and no icc profile was loaded, and
\* img->profile holds the icm profile in place of the one it held before
C4_Witness ==
  /\ ImReturnedOk
  /\ im.lib.icc = NULL
  /\ im.lib.icm # NULL
  /\ im.img.profile = im.lib.icm
  /\ im.img.profile_size = Len(im.lib.icm)
  /\ im.prior.profile # NULL
  /\ im.prior.profile # im.lib.icm

ImPixels == im.img.width * im.img.height
PastCmykStep == ImRunning /\ im.pc \in {"profile", "destroy", "finish"} \cup {"done"}
                  /\ "MagickExportImagePixels" \in im.ok

\* the integer x * 2^j of a float x >= 0 where there is one below 2^23, and
\* -1 for every other float
Scaled(x, j) ==
  LET k == 0 - (x.e + j)
  IN IF x.class # "finite" \/ x.s = 1 THEN -1
     ELSE IF x.m = 0 THEN 0
     ELSE IF k > 0 /\ k <= 30 /\ x.m % 2^k = 0 THEN x.m \div 2^k
     ELSE -1
\* the number of sixteenths of a float x in [0, 1] that is a multiple of
\* 1/16, and -1 for every other float
Sixteenths(x) == IF Scaled(x, 4) \in 0 .. 16 THEN Scaled(x, 4) ELSE -1

\* C5: the CMYK fix-up runs iff the library reports colorspace CMY or CMYK;
\* it visits exactly img->width * img->height pixels, replaces each of the
\* first three channels c of a pixel by (1 - k) * (1 - c) in float
\* arithmetic (which is the exact product where k and c are multiples of
\* 1/16), k being the pixel's fourth channel as exported, and leaves the
\* fourth channel (and what lies behind the last pixel) unchanged; for every
\* other colorspace the buffer is left exactly as the library wrote it.
C5_CmykFixupPerPixel ==
  PastCmykStep =>
    /\ Len(im.mipbuf) = Len(im.exported)
    /\ IF im.lib.colorspace \in {CMYColorspace, CMYKColorspace}
       THEN /\ CallCount("cmyk_fixup") = 1
            /\ \A p \in 0 .. (ImPixels - 1) :
                 /\ im.mipbuf[4 * p + 4] = im.exported[4 * p + 4]
                 /\ \A c \in 1 .. 3 :
                      LET k == im.exported[4 * p + 4]
                          was == im.exported[4 * p + c]
                          now == im.mipbuf[4 * p + c]
                      IN /\ now = FMul(FSub(ONE_F, k), FSub(ONE_F, was))
                         /\ (Sixteenths(k) # -1 /\ Sixteenths(was) # -1) =>
                              Scaled(now, 8) = (16 - Sixteenths(k)) * (16 - Sixteenths(was))
            /\ \A i \in DOMAIN im.mipbuf :
                 i > 4 * ImPixels => im.mipbuf[i] = im.exported[i]
       ELSE /\ CallCount("cmyk_fixup") = 0
            /\ im.mipbuf = im.exported

\* a CMYK image of several pixels was loaded and its last pixel was changed
\* by the fix-up; the first channel of a pixel is a multiple of 1/16, the
\* one of another pixel is not and the fix-up has rounded it
C5_Witness ==
  /\ ImReturnedOk
  /\ im.lib.colorspace = CMYKColorspace
  /\ ImPixels >= 2
  /\ im.mipbuf[4 * ImPixels - 3] # im.exported[4 * ImPixels - 3]
  /\ \E p \in 0 .. (ImPixels - 1) : Sixteenths(im.exported[4 * p + 1]) > 0
  /\ \E p \in 0 .. (ImPixels - 1) :
       /\ im.exported[4 * p + 1] = Float(1, -25)
       /\ im.mipbuf[4 * p + 1] = ONE_F

\* the calls that are handed the wand
WandCalls ==
  {"MagickReadImage", "MagickGetImageWidth", "MagickGetImageHeight",
   "MagickGetImageColorspace", "MagickExportImagePixels",
   "MagickGetImageProfile icc", "MagickGetImageProfile icm"}

\* C10: on every path through dt_imageio_open_im DestroyMagickWand is called
\* exactly once if NewMagickWand returned a wand and not at all otherwise
\* (unsupported filename, or wand creation failed); MagickWandTerminus is
\* never called and nothing uses the wand after it was destroyed.
C10_WandDestroyedOnceIffCreated ==
  (ImRunning /\ ImEnded) =>
    /\ CallCount("DestroyMagickWand") = IF "NewMagickWand" \in im.ok THEN 1 ELSE 0
    /\ "MagickWandTerminus" \notin CallsMade
    /\ \A i, j \in DOMAIN im.calls :
         (im.calls[i] = "DestroyMagickWand" /\ im.calls[j] \in WandCalls) => j < i

\* the return code the first failing step of a call stands for
ExpectedReturn ==
  IF ~_supported_image(im.filename, im.im7) THEN DT_IMAGEIO_LOAD_FAILED
  ELSE IF "NewMagickWand" \notin im.ok THEN DT_IMAGEIO_LOAD_FAILED
  ELSE IF "MagickReadImage" \notin im.ok THEN DT_IMAGEIO_FILE_NOT_FOUND
  ELSE IF "dt_mipmap_cache_alloc" \notin im.ok THEN DT_IMAGEIO_CACHE_FULL
  ELSE IF "MagickExportImagePixels" \notin im.ok THEN DT_IMAGEIO_LOAD_FAILED
  ELSE DT_IMAGEIO_OK

\* C11: dt_imageio_open_im maps each failure to one return code: an
\* unsupported filename, a failed wand creation and a failed pixel export
\* return DT_IMAGEIO_LOAD_FAILED, a failed MagickReadImage returns
\* DT_IMAGEIO_FILE_NOT_FOUND, a failed buffer allocation returns
\* DT_IMAGEIO_CACHE_FULL, no failure returns DT_IMAGEIO_OK; the first
\* failing step decides the code, and every call ends by returning it.
C11_FirstFailureDecidesReturnCode ==
  (ImRunning /\ ImEnded) =>
    /\ im.pc = "done"
    /\ im.ret = ExpectedReturn

\* the same for the calls that do return
C11_ReturnCodeWhenReturning ==
  (ImRunning /\ im.pc = "done") => im.ret = ExpectedReturn

RawHdrFlags == {DT_IMAGE_RAW, DT_IMAGE_S_RAW, DT_IMAGE_HDR}

\* C12 as stated: whenever dt_imageio_open_im returns DT_IMAGEIO_OK, img describes a
\* 4-channel float RGB non-raw image: buf_dsc.channels = 4, buf_dsc.datatype
\* = TYPE_FLOAT, buf_dsc.cst = IOP_CS_RGB, buf_dsc.filters = 0, the flags
\* DT_IMAGE_RAW, DT_IMAGE_S_RAW and DT_IMAGE_HDR are clear, DT_IMAGE_LDR is
\* set, every other flag keeps its previous value and img->loader is
\* LOADER_IM; on every other path img->loader and img->flags are as they
\* were before the call.
C12_ImageDescribedOnOk ==
  ImRunning =>
    IF ImReturnedOk
    THEN /\ im.img.buf_dsc.channels = 4
         /\ im.img.buf_dsc.datatype = "TYPE_FLOAT"
         /\ im.img.buf_dsc.cst = "IOP_CS_RGB"
         /\ im.img.buf_dsc.filters = 0
         /\ im.img.flags \cap RawHdrFlags = {}
         /\ DT_IMAGE_LDR \in im.img.flags
         /\ im.img.flags \ (RawHdrFlags \cup {DT_IMAGE_LDR})
              = im.prior.flags \ (RawHdrFlags \cup {DT_IMAGE_LDR})
         /\ im.img.loader = "LOADER_IM"
    ELSE /\ im.img.loader = im.prior.loader
         /\ im.img.flags = im.prior.flags

\* C12 amended: whenever dt_imageio_open_im returns DT_IMAGEIO_OK,
\* buf_dsc.channels = 4, buf_dsc.datatype = TYPE_FLOAT, buf_dsc.cst =
\* IOP_CS_RGB, buf_dsc.filters = 0, the flags DT_IMAGE_RAW, DT_IMAGE_S_RAW
\* and DT_IMAGE_HDR are clear, DT_IMAGE_LDR is set, every other flag has the
\* value it had at line 85, after dt_exif_read if that was called, and
\* img->loader is LOADER_IM; on every other path img->loader and img->flags
\* are as they were at line 85; when dt_exif_read was not called, the
\* extension being refused or img->exif_inited set, that is as they were
\* before the call.
C12_ImageDescribedAfterExifRead ==
  ImRunning =>
    /\ IF ImReturnedOk
       THEN /\ im.img.buf_dsc.channels = 4
            /\ im.img.buf_dsc.datatype = "TYPE_FLOAT"
            /\ im.img.buf_dsc.cst = "IOP_CS_RGB"
            /\ im.img.buf_dsc.filters = 0
            /\ im.img.flags \cap RawHdrFlags = {}
            /\ DT_IMAGE_LDR \in im.img.flags
            /\ im.img.flags \ (RawHdrFlags \cup {DT_IMAGE_LDR})
                 = im.after_exif.flags \ (RawHdrFlags \cup {DT_IMAGE_LDR})
            /\ im.img.loader = "LOADER_IM"
       ELSE /\ im.img.loader = im.after_exif.loader
            /\ im.img.flags = im.after_exif.flags
    /\ "dt_exif_read" \notin CallsMade => im.after_exif = im.prior
    /\ "dt_exif_read" \in CallsMade => ~im.prior.exif_inited

\* dt_exif_read set DT_IMAGE_HDR and DT_IMAGE_REJECTED in a record that had
\* no flag set, and the image was loaded: the HDR flag is gone, the
\* rejected flag is kept, the loader is LOADER_IM
C12_Witness ==
  /\ ImReturnedOk
  /\ "dt_exif_read" \in CallsMade
  /\ im.prior.flags = {}
  /\ im.after_exif.flags = {DT_IMAGE_HDR, DT_IMAGE_REJECTED}
  /\ im.img.flags = {DT_IMAGE_REJECTED, DT_IMAGE_LDR}
  /\ im.prior.loader # "LOADER_IM"
  /\ im.img.loader = "LOADER_IM"

====
